---------------------------- MODULE Spec2Model ----------------------------
(***************************************************************************)
(* HeapPQueue (Assignment 6/code/HeapPQueue.h): a binary min-heap of       *)
(* DataPoint records kept in a manually managed array that grows and       *)
(* shrinks.  One action per public member function; the private helpers    *)
(* (parent, leftChild, rightChild, bubbleUp, bubbleDown, resize) are       *)
(* operators computed the way the code computes them.                      *)
(* SpecSteps runs enqueue, dequeue and resize one statement at a time,     *)
(* SpecLifetime adds the destructor, SpecTwo has two queues on one free    *)
(* store, SpecScenario is the caller of the resizing STUDENT_TEST.         *)
(***************************************************************************)
EXTENDS Integers, Sequences, FiniteSets, TLC

(* ------------------------------ bounds --------------------------------- *)
\* Spec: enqueue takes any DataPoint while fewer than MaxLen elements are
\* queued and the Filler record otherwise, up to MaxSize queued elements.
MaxLen == 3
MaxSize == 102
\* SpecSmall: enqueue takes any DataPoint, up to MaxSmall queued elements.
MaxSmall == 5
\* SpecSteps: enqueue takes any DataPoint while fewer than MaxStepLen
\* elements are queued and the Filler record otherwise, up to MaxSize.
MaxStepLen == 2
\* SpecTwo: each of the two queues takes any DataPoint, up to MaxTwoLen
\* queued elements.
MaxTwoLen == 2
\* SpecResize: enqueue takes any DataPoint, up to MaxResizeLen queued
\* elements; resize is called with 0..MaxNewCapacity or INITIAL_CAPACITY.
MaxResizeLen == 3
\* SpecStepsSmall: enqueue takes any DataPoint, up to MaxStepSmall queued
\* elements.
MaxStepSmall == 5
\* SpecTerminates: enqueue takes any DataPoint, up to MaxFairLen queued
\* elements.
MaxFairLen == 3
\* elements in each of the two queues that receive the same calls
MaxSameLen == 3
MaxNewCapacity == 4
\* the records enqueue is called with: a negative, a zero and a positive
\* weight, and two records that differ in name only
DataPoints == {[name |-> "a", weight |-> -1], [name |-> "a", weight |-> 0],
               [name |-> "b", weight |-> 0], [name |-> "a", weight |-> 1]}
Filler == [name |-> "f", weight |-> 1]
AllPoints == DataPoints \cup {Filler}
\* addresses operator new[] hands out; a queue holds one array, and two
\* while resize runs, so the new array is always at the other address
BufIds == {"b1", "b2"}
\* SpecTwo: two queues hold two arrays, and three while resize runs
TwoBufIds == {"b1", "b2", "b3"}
QueueIds == {"pq1", "pq2"}

(* ------------------------- program constants --------------------------- *)
INITIAL_CAPACITY == 100
growFactor == 2
\* variant: a threshold above 1 / growFactor
shrinkThreshold_threeQuarters == <<3, 4>>
\* shrinkThreshold(0.25) as numerator / denominator
shrinkThreshold == <<1, 4>>

\* A slot of a new DataPoint[n] array: default-constructed, weight
\* indeterminate; no member function reads a slot before writing it.
Indeterminate == [name |-> "", weight |-> (0 - 2147483647) - 1]
NoPoint == [name |-> "<none>", weight |-> 0]

\* C++ conversion of a non-negative quotient to int: truncation
TruncDiv(a, b) == IF a >= 0 THEN a \div b ELSE 0 - ((0 - a) \div b)
max(a, b) == IF a < b THEN b ELSE a

NewArray(n) == [i \in 0..(n - 1) |-> Indeterminate]

VARIABLES
    currentSize,   \* int currentSize
    capacity,      \* int capacity
    heap,          \* contents of the array heap points to, slots 0..capacity-1
    heapPtr,       \* identity (address) of the array heap points to
    allocated,     \* addresses of the arrays currently allocated
    lastOp,        \* the member function called last
    threw,         \* whether that call ended in error()
    retPoint,      \* DataPoint returned by dequeue / peek
    retInt,        \* int returned by size
    retBool,       \* bool returned by isEmpty
    nNew,          \* new[] executed by the last call
    nDelete,       \* delete[] executed by the last call
    enqCalls,      \* history: enqueue calls minus successful dequeue calls
    live,          \* history: records enqueued and not yet returned
    tracking,      \* history: the calls so far are enqueues then dequeues
    fill,          \* history: records enqueued since construction
    drain,         \* history: records dequeued after the last enqueue
    script,        \* position of the caller in the scripted test, if any
    frame,         \* the statement a running call is at, and its locals
    pqs,           \* SpecTwo: the members of each of two HeapPQueue objects
    memory         \* SpecTwo: the arrays on the free store, by address

vars == <<currentSize, capacity, heap, heapPtr, allocated, lastOp, threw,
          retPoint, retInt, retBool, nNew, nDelete, enqCalls, live,
          tracking, fill, drain, script, frame, pqs, memory>>

\* the objects of the specification with two queues
instances == <<pqs, memory>>

queue == [currentSize |-> currentSize, capacity |-> capacity,
          heap |-> heap, heapPtr |-> heapPtr]

(* ------------------------------ helpers -------------------------------- *)
\* variant: the slot before
parent_previous(index) == index - 1

parent(index) == TruncDiv(index - 1, 2)

leftChild(index) == 2 * index + 1

rightChild(index) == 2 * index + 2

swap(h, i, j) == [h EXCEPT ![i] = h[j], ![j] = h[i]]

\* variant: an if in place of the while, at most one swap
bubbleUp_once(h, index) ==
    IF index > 0 /\ h[index].weight < h[parent(index)].weight
    THEN swap(h, index, parent(index))
    ELSE h

\* variant: swaps with a parent of equal weight too
RECURSIVE bubbleUp_nonStrict(_, _)
bubbleUp_nonStrict(h, index) ==
    IF index > 0 /\ h[index].weight <= h[parent(index)].weight
    THEN bubbleUp_nonStrict(swap(h, index, parent(index)), parent(index))
    ELSE h

RECURSIVE bubbleUp(_, _)
bubbleUp(h, index) ==
    IF index > 0 /\ h[index].weight < h[parent(index)].weight
    THEN bubbleUp(swap(h, index, parent(index)), parent(index))
    ELSE h

\* variant: the right child is never looked at
RECURSIVE bubbleDown_leftOnly(_, _, _)
bubbleDown_leftOnly(h, size, index) ==
    LET left == leftChild(index)
        smallest == IF left < size /\ h[left].weight < h[index].weight
                    THEN left ELSE index
    IN IF smallest # index
       THEN bubbleDown_leftOnly(swap(h, index, smallest), size, smallest)
       ELSE h

\* variant: the right child is compared with heap[index], not heap[smallest]
RECURSIVE bubbleDown_rightVsIndex(_, _, _)
bubbleDown_rightVsIndex(h, size, index) ==
    LET left == leftChild(index)
        right == rightChild(index)
        s1 == IF left < size /\ h[left].weight < h[index].weight
              THEN left ELSE index
        smallest == IF right < size /\ h[right].weight < h[index].weight
                    THEN right ELSE s1
    IN IF smallest # index
       THEN bubbleDown_rightVsIndex(swap(h, index, smallest), size, smallest)
       ELSE h

RECURSIVE bubbleDown(_, _, _)
bubbleDown(h, size, index) ==
    LET left == leftChild(index)
        right == rightChild(index)
        s1 == IF left < size /\ h[left].weight < h[index].weight
              THEN left ELSE index
        smallest == IF right < size /\ h[right].weight < h[s1].weight
                    THEN right ELSE s1
    IN IF smallest # index
       THEN bubbleDown(swap(h, index, smallest), size, smallest)
       ELSE h

\* outcome of a call: the queue afterwards, whether error() was raised,
\* the new[] / delete[] it executed and the addresses allocated afterwards
Outcome(q, t, n, d, a) ==
    [q |-> q, threw |-> t, news |-> n, deletes |-> d, alloc |-> a]

\* variant: the copy loop stops one element early
resize_shortCopy(q, alloc, newCapacity, p) ==
    IF newCapacity < q.currentSize
    THEN Outcome(q, TRUE, 0, 0, alloc)
    ELSE LET newHeap == [i \in 0..(newCapacity - 1) |->
                            IF i < q.currentSize - 1 THEN q.heap[i]
                            ELSE Indeterminate]
         IN Outcome([q EXCEPT !.heap = newHeap, !.heapPtr = p,
                              !.capacity = newCapacity],
                    FALSE, 1, 1, (alloc \cup {p}) \ {q.heapPtr})

\* variant: delete[] is given the new array, the old one stays allocated
resize_deletesNew(q, alloc, newCapacity, p) ==
    IF newCapacity < q.currentSize
    THEN Outcome(q, TRUE, 0, 0, alloc)
    ELSE LET newHeap == [i \in 0..(newCapacity - 1) |->
                            IF i < q.currentSize THEN q.heap[i]
                            ELSE Indeterminate]
         IN Outcome([q EXCEPT !.heap = newHeap, !.heapPtr = p,
                              !.capacity = newCapacity],
                    FALSE, 1, 1, alloc \ {p})

\* variant: capacity = newCapacity is missing
resize_keepCapacity(q, alloc, newCapacity, p) ==
    IF newCapacity < q.currentSize
    THEN Outcome(q, TRUE, 0, 0, alloc)
    ELSE LET newHeap == [i \in 0..(newCapacity - 1) |->
                            IF i < q.currentSize THEN q.heap[i]
                            ELSE Indeterminate]
         IN Outcome([q EXCEPT !.heap = newHeap, !.heapPtr = p],
                    FALSE, 1, 1, (alloc \cup {p}) \ {q.heapPtr})

\* variant: no test of newCapacity; what fits is copied
resize_noCheck(q, alloc, newCapacity, p) ==
    LET newHeap == [i \in 0..(newCapacity - 1) |->
                       IF i < q.currentSize THEN q.heap[i]
                       ELSE Indeterminate]
    IN Outcome([q EXCEPT !.heap = newHeap, !.heapPtr = p,
                         !.capacity = newCapacity],
               FALSE, 1, 1, (alloc \cup {p}) \ {q.heapPtr})

\* p: the address new[] returns
resize(q, alloc, newCapacity, p) ==
    IF newCapacity < q.currentSize
    THEN Outcome(q, TRUE, 0, 0, alloc)
    ELSE LET newHeap == [i \in 0..(newCapacity - 1) |->
                            IF i < q.currentSize THEN q.heap[i]
                            ELSE Indeterminate]
         IN Outcome([q EXCEPT !.heap = newHeap, !.heapPtr = p,
                              !.capacity = newCapacity],
                    FALSE, 1, 1, (alloc \cup {p}) \ {q.heapPtr})

size(q) == q.currentSize

\* variant: tests the capacity, not the size
isEmpty_capacity(q) == q.capacity = 0

isEmpty(q) == q.currentSize = 0

\* variant: grows by half the capacity
enqueue_growByHalf(q, alloc, data, p) ==
    LET r == IF size(q) = q.capacity
             THEN resize(q, alloc, TruncDiv(q.capacity * 3, 2), p)
             ELSE Outcome(q, FALSE, 0, 0, alloc)
    IN IF r.threw THEN r
       ELSE LET h1 == [r.q.heap EXCEPT ![r.q.currentSize] = data]
                n1 == r.q.currentSize + 1
            IN [r EXCEPT !.q = [r.q EXCEPT !.heap = bubbleUp(h1, n1 - 1),
                                           !.currentSize = n1]]

\* variant: grows one element before the array is full
enqueue_growEarly(q, alloc, data, p) ==
    LET r == IF size(q) + 1 = q.capacity
             THEN resize(q, alloc, q.capacity * growFactor, p)
             ELSE Outcome(q, FALSE, 0, 0, alloc)
    IN IF r.threw THEN r
       ELSE LET h1 == [r.q.heap EXCEPT ![r.q.currentSize] = data]
                n1 == r.q.currentSize + 1
            IN [r EXCEPT !.q = [r.q EXCEPT !.heap = bubbleUp(h1, n1 - 1),
                                           !.currentSize = n1]]

enqueue(q, alloc, data, p) ==
    LET r == IF size(q) = q.capacity
             THEN resize(q, alloc, q.capacity * growFactor, p)
             ELSE Outcome(q, FALSE, 0, 0, alloc)
    IN IF r.threw THEN r
       ELSE LET h1 == [r.q.heap EXCEPT ![r.q.currentSize] = data]
                n1 == r.q.currentSize + 1
            IN [r EXCEPT !.q = [r.q EXCEPT !.heap = bubbleUp(h1, n1 - 1),
                                           !.currentSize = n1]]

\* variant: currentSize is not decremented
dequeue_noDecrement(q, alloc, p) ==
    IF isEmpty(q)
    THEN [out |-> Outcome(q, TRUE, 0, 0, alloc), root |-> NoPoint]
    ELSE LET root == q.heap[0]
             h1 == [q.heap EXCEPT ![0] = q.heap[q.currentSize - 1]]
             n1 == q.currentSize
             q1 == [q EXCEPT !.heap = bubbleDown(h1, n1, 0),
                             !.currentSize = n1]
             r == IF size(q1) * shrinkThreshold[2]
                        < shrinkThreshold[1] * q1.capacity
                  THEN resize(q1, alloc,
                              max(INITIAL_CAPACITY,
                                  TruncDiv(q1.capacity, growFactor)), p)
                  ELSE Outcome(q1, FALSE, 0, 0, alloc)
         IN [out |-> r, root |-> IF r.threw THEN NoPoint ELSE root]

\* variant: the result is read after heap[0] has been overwritten
dequeue_lateRoot(q, alloc, p) ==
    IF isEmpty(q)
    THEN [out |-> Outcome(q, TRUE, 0, 0, alloc), root |-> NoPoint]
    ELSE LET h1 == [q.heap EXCEPT ![0] = q.heap[q.currentSize - 1]]
             root == h1[0]
             n1 == q.currentSize - 1
             q1 == [q EXCEPT !.heap = bubbleDown(h1, n1, 0),
                             !.currentSize = n1]
             r == IF size(q1) * shrinkThreshold[2]
                        < shrinkThreshold[1] * q1.capacity
                  THEN resize(q1, alloc,
                              max(INITIAL_CAPACITY,
                                  TruncDiv(q1.capacity, growFactor)), p)
                  ELSE Outcome(q1, FALSE, 0, 0, alloc)
         IN [out |-> r, root |-> IF r.threw THEN NoPoint ELSE root]

\* variant: the shrink test runs before the emptiness test
dequeue_shrinkFirst(q, alloc, p) ==
    LET r0 == IF size(q) * shrinkThreshold[2]
                    < shrinkThreshold[1] * q.capacity
              THEN resize(q, alloc,
                          max(INITIAL_CAPACITY,
                              TruncDiv(q.capacity, growFactor)), p)
              ELSE Outcome(q, FALSE, 0, 0, alloc)
    IN IF isEmpty(r0.q)
       THEN [out |-> [r0 EXCEPT !.threw = TRUE], root |-> NoPoint]
       ELSE LET root == r0.q.heap[0]
                h1 == [r0.q.heap EXCEPT ![0] = r0.q.heap[r0.q.currentSize - 1]]
                n1 == r0.q.currentSize - 1
            IN [out |-> [r0 EXCEPT !.q = [r0.q EXCEPT
                                             !.heap = bubbleDown(h1, n1, 0),
                                             !.currentSize = n1]],
                root |-> root]

\* variant: the array is never shrunk
dequeue_noShrink(q, alloc, p) ==
    IF isEmpty(q)
    THEN [out |-> Outcome(q, TRUE, 0, 0, alloc), root |-> NoPoint]
    ELSE LET root == q.heap[0]
             h1 == [q.heap EXCEPT ![0] = q.heap[q.currentSize - 1]]
             n1 == q.currentSize - 1
             q1 == [q EXCEPT !.heap = bubbleDown(h1, n1, 0),
                             !.currentSize = n1]
         IN [out |-> Outcome(q1, FALSE, 0, 0, alloc), root |-> root]

\* variant: the shrink target is not bounded below by INITIAL_CAPACITY
dequeue_noFloor(q, alloc, p) ==
    IF isEmpty(q)
    THEN [out |-> Outcome(q, TRUE, 0, 0, alloc), root |-> NoPoint]
    ELSE LET root == q.heap[0]
             h1 == [q.heap EXCEPT ![0] = q.heap[q.currentSize - 1]]
             n1 == q.currentSize - 1
             q1 == [q EXCEPT !.heap = bubbleDown(h1, n1, 0),
                             !.currentSize = n1]
             r == IF size(q1) * shrinkThreshold[2]
                        < shrinkThreshold[1] * q1.capacity
                  THEN resize(q1, alloc,
                              TruncDiv(q1.capacity, growFactor), p)
                  ELSE Outcome(q1, FALSE, 0, 0, alloc)
         IN [out |-> r, root |-> IF r.threw THEN NoPoint ELSE root]

\* variant: the shrink test reads the size from before the decrement
dequeue_sizeBefore(q, alloc, p) ==
    IF isEmpty(q)
    THEN [out |-> Outcome(q, TRUE, 0, 0, alloc), root |-> NoPoint]
    ELSE LET root == q.heap[0]
             h1 == [q.heap EXCEPT ![0] = q.heap[q.currentSize - 1]]
             n1 == q.currentSize - 1
             q1 == [q EXCEPT !.heap = bubbleDown(h1, n1, 0),
                             !.currentSize = n1]
             r == IF size(q) * shrinkThreshold[2]
                        < shrinkThreshold[1] * q1.capacity
                  THEN resize(q1, alloc,
                              max(INITIAL_CAPACITY,
                                  TruncDiv(q1.capacity, growFactor)), p)
                  ELSE Outcome(q1, FALSE, 0, 0, alloc)
         IN [out |-> r, root |-> IF r.threw THEN NoPoint ELSE root]

\* variant: shrinks when the array is half empty
dequeue_shrinkAtHalf(q, alloc, p) ==
    IF isEmpty(q)
    THEN [out |-> Outcome(q, TRUE, 0, 0, alloc), root |-> NoPoint]
    ELSE LET root == q.heap[0]
             h1 == [q.heap EXCEPT ![0] = q.heap[q.currentSize - 1]]
             n1 == q.currentSize - 1
             q1 == [q EXCEPT !.heap = bubbleDown(h1, n1, 0),
                             !.currentSize = n1]
             r == IF size(q1) * growFactor <= q1.capacity
                  THEN resize(q1, alloc,
                              max(INITIAL_CAPACITY,
                                  TruncDiv(q1.capacity, growFactor)), p)
                  ELSE Outcome(q1, FALSE, 0, 0, alloc)
         IN [out |-> r, root |-> IF r.threw THEN NoPoint ELSE root]

dequeue(q, alloc, p) ==
    IF isEmpty(q)
    THEN [out |-> Outcome(q, TRUE, 0, 0, alloc), root |-> NoPoint]
    ELSE LET root == q.heap[0]
             h1 == [q.heap EXCEPT ![0] = q.heap[q.currentSize - 1]]
             n1 == q.currentSize - 1
             q1 == [q EXCEPT !.heap = bubbleDown(h1, n1, 0),
                             !.currentSize = n1]
             r == IF size(q1) * shrinkThreshold[2]
                        < shrinkThreshold[1] * q1.capacity
                  THEN resize(q1, alloc,
                              max(INITIAL_CAPACITY,
                                  TruncDiv(q1.capacity, growFactor)), p)
                  ELSE Outcome(q1, FALSE, 0, 0, alloc)
         IN [out |-> r, root |-> IF r.threw THEN NoPoint ELSE root]

\* variant: no emptiness test
peek_unchecked(q) == [threw |-> FALSE, ret |-> q.heap[0]]

\* variant: returns the last live element
peek_last(q) ==
    IF isEmpty(q) THEN [threw |-> TRUE, ret |-> NoPoint]
    ELSE [threw |-> FALSE, ret |-> q.heap[q.currentSize - 1]]

peek(q) ==
    IF isEmpty(q) THEN [threw |-> TRUE, ret |-> NoPoint]
    ELSE [threw |-> FALSE, ret |-> q.heap[0]]

(* --------------------------- history helpers --------------------------- *)
EmptyBag == [d \in AllPoints |-> 0]
BagAdd(b, d) == IF d \in DOMAIN b THEN [b EXCEPT ![d] = @ + 1]
                ELSE b @@ (d :> 1)
BagDel(b, d) == IF d \in DOMAIN b THEN [b EXCEPT ![d] = @ - 1] ELSE b
\* the records stored at indices [0, n) of h, with multiplicity
LiveBag(h, n) ==
    [d \in AllPoints |-> Cardinality({i \in 0..(n - 1) : h[i] = d})]

Adopt(r) ==
    /\ currentSize' = r.q.currentSize
    /\ capacity' = r.q.capacity
    /\ heap' = r.q.heap
    /\ heapPtr' = r.q.heapPtr
    /\ allocated' = r.alloc
    /\ threw' = r.threw
    /\ nNew' = r.news
    /\ nDelete' = r.deletes

(* ---------------------------- scripted test ---------------------------- *)
\* STUDENT_TEST("Heap handles alternating enqueues and dequeues with
\* resizing"): the loop bounds of its three for loops
FirstFill == 120
FirstDrain == 100
SecondFill == 150

\* { "elem" + to_string(i), i }
Elem(i) == [name |-> "elem" \o ToString(i), weight |-> i]

\* pc: the statement the test is at; i: its loop variable;
\* n: remainingElements.size()
NoScript == [pc |-> "none", i |-> 0, n |-> 0]
ScriptStart == [pc |-> "fill1", i |-> 0, n |-> 0]

\* where the test is after the call it makes at sc has returned b
\* (b matters for isEmpty() only)
Advance(sc, b) ==
    CASE sc.pc = "fill1" ->
            IF sc.i + 1 < FirstFill THEN [sc EXCEPT !.i = sc.i + 1]
            ELSE [sc EXCEPT !.pc = "drain1", !.i = 0]
      [] sc.pc = "drain1" ->
            IF sc.i + 1 < FirstDrain THEN [sc EXCEPT !.i = sc.i + 1]
            ELSE [sc EXCEPT !.pc = "fill2", !.i = FirstFill]
      [] sc.pc = "fill2" ->
            IF sc.i + 1 < SecondFill THEN [sc EXCEPT !.i = sc.i + 1]
            ELSE [sc EXCEPT !.pc = "while", !.i = 0]
      [] sc.pc = "while" ->
            IF b THEN [sc EXCEPT !.pc = "size"] ELSE [sc EXCEPT !.pc = "add"]
      [] sc.pc = "add" -> [sc EXCEPT !.pc = "while", !.n = sc.n + 1]
      [] sc.pc = "size" -> [sc EXCEPT !.pc = "isEmpty"]
      [] sc.pc = "isEmpty" -> [sc EXCEPT !.pc = "done"]
      [] OTHER -> sc

(* ----------------------------- call frames ----------------------------- *)
\* pc names the line of HeapPQueue.h the call is about to execute
\* (e: enqueue, d: dequeue, r: resize, u: bubbleUp, b: bubbleDown);
\* the other fields are the parameters and locals of the running functions;
\* ret is where resize returns to; swaps counts the swaps the running
\* bubbleUp / bubbleDown loop has made.
IdleFrame ==
    [pc |-> "idle", data |-> NoPoint, root |-> NoPoint, index |-> 0,
     size |-> 0, newCapacity |-> 0, newHeap |-> <<>>, newPtr |-> "null",
     i |-> 0, ret |-> "idle", swaps |-> 0]

At(pc) == frame.pc = pc

(* ------------------------------ actions -------------------------------- *)
Constructed ==
    /\ currentSize = 0
    /\ capacity = INITIAL_CAPACITY
    /\ heap = NewArray(INITIAL_CAPACITY)
    /\ heapPtr = "b1"
    /\ allocated = {"b1"}
    /\ lastOp = "HeapPQueue"
    /\ threw = FALSE
    /\ retPoint = NoPoint
    /\ retInt = 0
    /\ retBool = FALSE
    /\ nNew = 1
    /\ nDelete = 0
    /\ enqCalls = 0
    /\ live = EmptyBag
    /\ tracking = TRUE
    /\ fill = <<>>
    /\ drain = <<>>
    /\ frame = IdleFrame

\* one queue: no second object
NoInstances == <<>>

Init ==
    /\ Constructed
    /\ script = NoScript
    /\ pqs = NoInstances
    /\ memory = NoInstances

Enqueue(data) ==
    /\ \E p \in BufIds \ allocated :
          Adopt(enqueue(queue, allocated, data, p))
    /\ lastOp' = "enqueue"
    /\ retPoint' = NoPoint
    /\ retInt' = 0
    /\ retBool' = FALSE
    /\ enqCalls' = enqCalls + 1
    /\ live' = BagAdd(live, data)
    /\ tracking' = (tracking /\ drain = <<>> /\ Len(fill) < MaxSmall)
    /\ fill' = IF tracking' THEN Append(fill, data) ELSE <<>>
    /\ drain' = <<>>
    /\ script' = Advance(script, FALSE)
    /\ UNCHANGED <<frame, instances>>

Dequeue ==
    /\ \E p \in BufIds \ allocated :
          LET r == dequeue(queue, allocated, p)
          IN /\ Adopt(r.out)
             /\ retPoint' = r.root
             /\ enqCalls' = IF r.out.threw THEN enqCalls ELSE enqCalls - 1
             /\ live' = IF r.out.threw THEN live ELSE BagDel(live, r.root)
             /\ drain' = IF tracking /\ ~r.out.threw
                         THEN Append(drain, r.root) ELSE drain
    /\ lastOp' = "dequeue"
    /\ retInt' = 0
    /\ retBool' = FALSE
    /\ UNCHANGED <<tracking, fill>>
    /\ script' = Advance(script, FALSE)
    /\ UNCHANGED <<frame, instances>>

\* variant: peek removes what it returns
Peek_removes ==
    /\ \E p \in BufIds \ allocated :
          LET r == dequeue(queue, allocated, p)
          IN /\ Adopt(r.out)
             /\ retPoint' = r.root
    /\ lastOp' = "peek"
    /\ retInt' = 0
    /\ retBool' = FALSE
    /\ UNCHANGED <<enqCalls, live, tracking, fill, drain, script, frame,
                   instances>>

Peek ==
    /\ lastOp' = "peek"
    /\ threw' = peek(queue).threw
    /\ retPoint' = peek(queue).ret
    /\ retInt' = 0
    /\ retBool' = FALSE
    /\ nNew' = 0
    /\ nDelete' = 0
    /\ UNCHANGED <<currentSize, capacity, heap, heapPtr, allocated,
                   enqCalls, live, tracking, fill, drain, script, frame,
                   instances>>

Size ==
    /\ lastOp' = "size"
    /\ threw' = FALSE
    /\ retInt' = size(queue)
    /\ retPoint' = NoPoint
    /\ retBool' = FALSE
    /\ nNew' = 0
    /\ nDelete' = 0
    /\ UNCHANGED <<currentSize, capacity, heap, heapPtr, allocated,
                   enqCalls, live, tracking, fill, drain>>
    /\ script' = Advance(script, FALSE)
    /\ UNCHANGED <<frame, instances>>

IsEmpty ==
    /\ lastOp' = "isEmpty"
    /\ threw' = FALSE
    /\ retBool' = isEmpty(queue)
    /\ retPoint' = NoPoint
    /\ retInt' = 0
    /\ nNew' = 0
    /\ nDelete' = 0
    /\ UNCHANGED <<currentSize, capacity, heap, heapPtr, allocated,
                   enqCalls, live, tracking, fill, drain>>
    /\ script' = Advance(script, isEmpty(queue))
    /\ UNCHANGED <<frame, instances>>

Inputs == IF currentSize < MaxLen THEN DataPoints
          ELSE IF currentSize < MaxSize THEN {Filler} ELSE {}

Next ==
    \/ \E data \in Inputs : Enqueue(data)
    \/ Dequeue
    \/ Peek
    \/ Size
    \/ IsEmpty

Spec == Init /\ [][Next]_vars

EnqueueSmall(data) == currentSize < MaxSmall /\ Enqueue(data)

NextSmall ==
    \/ \E data \in DataPoints : EnqueueSmall(data)
    \/ Dequeue
    \/ Peek
    \/ Size
    \/ IsEmpty

SpecSmall == Init /\ [][NextSmall]_vars

\* the calls of the scripted test, in its order
ScriptEnqueue == script.pc \in {"fill1", "fill2"} /\ Enqueue(Elem(script.i))

ScriptDequeue == script.pc \in {"drain1", "add"} /\ Dequeue

ScriptIsEmpty == script.pc \in {"while", "isEmpty"} /\ IsEmpty

ScriptSize == script.pc = "size" /\ Size

InitScenario ==
    /\ Constructed
    /\ script = ScriptStart
    /\ pqs = NoInstances
    /\ memory = NoInstances

NextScenario == ScriptEnqueue \/ ScriptDequeue \/ ScriptIsEmpty \/ ScriptSize

SpecScenario == InitScenario /\ [][NextScenario]_vars

(* ------------------------ resize called directly ----------------------- *)
\* A test (the class grants tests access to its private section) fills the
\* queue and then calls resize itself, once, with any newCapacity.
ResizeArgs == (0 .. MaxNewCapacity) \cup {INITIAL_CAPACITY}

EnqueueBefore(data) ==
    /\ lastOp # "resize"
    /\ currentSize < MaxResizeLen
    /\ Enqueue(data)

DequeueBefore == lastOp # "resize" /\ Dequeue

Resize(newCapacity) ==
    /\ lastOp # "resize"
    /\ \E p \in BufIds \ allocated :
          Adopt(resize(queue, allocated, newCapacity, p))
    /\ lastOp' = "resize"
    /\ retPoint' = NoPoint
    /\ retInt' = 0
    /\ retBool' = FALSE
    /\ UNCHANGED <<enqCalls, live, tracking, fill, drain, script, frame,
                   instances>>

NextResize ==
    \/ \E data \in DataPoints : EnqueueBefore(data)
    \/ DequeueBefore
    \/ \E newCapacity \in ResizeArgs : Resize(newCapacity)

SpecResize == Init /\ [][NextResize]_vars

(* ------------------- a caller that alternates calls -------------------- *)
\* The caller makes any calls, then from some point on alternates
\* enqueue and dequeue strictly; script.n keeps the capacity at that point.
FreeCalls == [pc |-> "free", i |-> 0, n |-> 0]

AnyEnqueue == script.pc = "free" /\ currentSize < MaxSize /\ Enqueue(Filler)

AnyDequeue == script.pc = "free" /\ Dequeue

AnyPeek == script.pc = "free" /\ Peek

StartAlternating ==
    /\ script.pc = "free"
    /\ script' = [pc |-> "alt", i |-> 0, n |-> capacity]
    /\ UNCHANGED <<currentSize, capacity, heap, heapPtr, allocated, lastOp,
                   threw, retPoint, retInt, retBool, nNew, nDelete,
                   enqCalls, live, tracking, fill, drain, frame, instances>>

AltEnqueue ==
    /\ script.pc = "alt" /\ lastOp # "enqueue"
    /\ currentSize < MaxSize
    /\ Enqueue(Filler)

AltDequeue == script.pc = "alt" /\ lastOp # "dequeue" /\ Dequeue

InitAlternate ==
    /\ Constructed
    /\ script = FreeCalls
    /\ pqs = NoInstances
    /\ memory = NoInstances

NextAlternate ==
    \/ AnyEnqueue \/ AnyDequeue \/ AnyPeek
    \/ StartAlternating
    \/ AltEnqueue \/ AltDequeue

SpecAlternate == InitAlternate /\ [][NextAlternate]_vars

(* ------------------- the member functions, step by step ---------------- *)
members == <<currentSize, capacity, heap, heapPtr>>
results == <<lastOp, threw, retPoint, retInt, retBool>>
history == <<enqCalls, live, tracking, fill, drain, script>>

Goto(pc) == frame' = [frame EXCEPT !.pc = pc]

\* a member function is entered
Enter(op, pc, data) ==
    /\ At("idle")
    /\ frame' = [IdleFrame EXCEPT !.pc = pc, !.data = data]
    /\ lastOp' = op
    /\ threw' = FALSE
    /\ retPoint' = NoPoint
    /\ retInt' = 0
    /\ retBool' = FALSE
    /\ nNew' = 0
    /\ nDelete' = 0
    /\ UNCHANGED <<members, allocated, history>>
    /\ UNCHANGED instances

\* error(...): the call ends, nothing is returned
Throw ==
    /\ frame' = IdleFrame
    /\ threw' = TRUE
    /\ UNCHANGED <<members, allocated, lastOp, retPoint, retInt, retBool,
                   nNew, nDelete, history>>

StartEnqueue(data) == Enter("enqueue", "e210", data)

\* variant: grows by one slot
E210_plusOne ==
    /\ At("e210")
    /\ frame' = IF size(queue) = capacity
                THEN [frame EXCEPT !.pc = "r219", !.ret = "e213",
                                   !.newCapacity = capacity + 1]
                ELSE [frame EXCEPT !.pc = "e213"]
    /\ UNCHANGED <<members, allocated, results, nNew, nDelete, history>>
    /\ UNCHANGED instances

\* variant: the array is never grown
E210_noGrow ==
    /\ At("e210")
    /\ frame' = [frame EXCEPT !.pc = "e213"]
    /\ UNCHANGED <<members, allocated, results, nNew, nDelete, history>>
    /\ UNCHANGED instances

\* 210-211: if (size() == capacity) resize(capacity * growFactor)
E210 ==
    /\ At("e210")
    /\ frame' = IF size(queue) = capacity
                THEN [frame EXCEPT !.pc = "r219", !.ret = "e213",
                                   !.newCapacity = capacity * growFactor]
                ELSE [frame EXCEPT !.pc = "e213"]
    /\ UNCHANGED <<members, allocated, results, nNew, nDelete, history>>
    /\ UNCHANGED instances

\* 219-221: if (newCapacity < currentSize) error(...)
R219 ==
    /\ At("r219")
    /\ IF frame.newCapacity < currentSize
       THEN Throw
       ELSE /\ Goto("r222")
            /\ UNCHANGED <<members, allocated, results, nNew, nDelete,
                           history>>
    /\ UNCHANGED instances

\* 222: DataPoint* newHeap = new DataPoint[newCapacity]
R222 ==
    /\ At("r222")
    /\ \E p \in BufIds \ allocated :
          /\ frame' = [frame EXCEPT !.pc = "r223", !.newPtr = p, !.i = 0,
                                    !.newHeap = NewArray(frame.newCapacity)]
          /\ allocated' = allocated \cup {p}
    /\ nNew' = nNew + 1
    /\ UNCHANGED <<members, results, nDelete, history>>
    /\ UNCHANGED instances

\* 223-225: one iteration of for (i = 0; i < currentSize; ++i)
\*              newHeap[i] = heap[i]
R223 ==
    /\ At("r223")
    /\ frame' = IF frame.i < currentSize
                THEN [frame EXCEPT !.newHeap[frame.i] = heap[frame.i],
                                   !.i = frame.i + 1]
                ELSE [frame EXCEPT !.pc = "r226"]
    /\ UNCHANGED <<members, allocated, results, nNew, nDelete, history>>
    /\ UNCHANGED instances

\* variant: the old array is not released
R226_noDelete ==
    /\ At("r226")
    /\ Goto("r227")
    /\ UNCHANGED <<members, allocated, results, nNew, nDelete, history>>
    /\ UNCHANGED instances

\* 226: delete[] heap
R226 ==
    /\ At("r226")
    /\ allocated' = allocated \ {heapPtr}
    /\ nDelete' = nDelete + 1
    /\ Goto("r227")
    /\ UNCHANGED <<members, results, nNew, history>>
    /\ UNCHANGED instances

\* 227: heap = newHeap
R227 ==
    /\ At("r227")
    /\ heap' = frame.newHeap
    /\ heapPtr' = frame.newPtr
    /\ frame' = [frame EXCEPT !.pc = "r228", !.newHeap = <<>>]
    /\ UNCHANGED <<currentSize, capacity, allocated, results, nNew, nDelete,
                   history>>
    /\ UNCHANGED instances

R228_keepCapacity ==
    /\ At("r228")
    /\ frame' = [frame EXCEPT !.pc = frame.ret, !.ret = "idle", !.i = 0,
                              !.newCapacity = 0, !.newPtr = "null"]
    /\ UNCHANGED <<members, allocated, results, nNew, nDelete, history>>
    /\ UNCHANGED instances

\* 228-229: capacity = newCapacity, and resize returns
R228 ==
    /\ At("r228")
    /\ capacity' = frame.newCapacity
    /\ frame' = [frame EXCEPT !.pc = frame.ret, !.ret = "idle", !.i = 0,
                              !.newCapacity = 0, !.newPtr = "null"]
    /\ UNCHANGED <<currentSize, heap, heapPtr, allocated, results, nNew,
                   nDelete, history>>
    /\ UNCHANGED instances

\* 213: heap[currentSize] = data
E213 ==
    /\ At("e213")
    /\ heap' = [heap EXCEPT ![currentSize] = frame.data]
    /\ Goto("e214")
    /\ UNCHANGED <<currentSize, capacity, heapPtr, allocated, results, nNew,
                   nDelete, history>>
    /\ UNCHANGED instances

\* 214: currentSize += 1
E214 ==
    /\ At("e214")
    /\ currentSize' = currentSize + 1
    /\ Goto("e215")
    /\ UNCHANGED <<capacity, heap, heapPtr, allocated, results, nNew,
                   nDelete, history>>
    /\ UNCHANGED instances

\* 215: bubbleUp(currentSize - 1)
E215 ==
    /\ At("e215")
    /\ frame' = [frame EXCEPT !.pc = "u203", !.index = currentSize - 1]
    /\ UNCHANGED <<members, allocated, results, nNew, nDelete, history>>
    /\ UNCHANGED instances

\* variant: index stays where it is after the swap
U203_keepsIndex ==
    /\ At("u203")
    /\ IF /\ frame.index > 0
          /\ heap[frame.index].weight < heap[parent(frame.index)].weight
       THEN /\ heap' = swap(heap, frame.index, parent(frame.index))
            /\ frame' = [frame EXCEPT !.swaps = frame.swaps + 1]
            /\ UNCHANGED history
       ELSE /\ frame' = IdleFrame
            /\ enqCalls' = enqCalls + 1
            /\ live' = BagAdd(live, frame.data)
            /\ tracking' =
                  (tracking /\ drain = <<>> /\ Len(fill) < MaxSmall)
            /\ fill' = IF tracking' THEN Append(fill, frame.data) ELSE <<>>
            /\ drain' = <<>>
            /\ UNCHANGED <<heap, script>>
    /\ UNCHANGED <<currentSize, capacity, heapPtr, allocated, results, nNew,
                   nDelete>>
    /\ UNCHANGED instances

\* 203-206: one iteration of the while loop of bubbleUp; when the loop
\* ends bubbleUp and enqueue return
U203 ==
    /\ At("u203")
    /\ IF /\ frame.index > 0
          /\ heap[frame.index].weight < heap[parent(frame.index)].weight
       THEN /\ heap' = swap(heap, frame.index, parent(frame.index))
            /\ frame' = [frame EXCEPT !.index = parent(frame.index),
                                      !.swaps = frame.swaps + 1]
            /\ UNCHANGED history
       ELSE /\ frame' = IdleFrame
            /\ enqCalls' = enqCalls + 1
            /\ live' = BagAdd(live, frame.data)
            /\ tracking' =
                  (tracking /\ drain = <<>> /\ Len(fill) < MaxSmall)
            /\ fill' = IF tracking' THEN Append(fill, frame.data) ELSE <<>>
            /\ drain' = <<>>
            /\ UNCHANGED <<heap, script>>
    /\ UNCHANGED <<currentSize, capacity, heapPtr, allocated, results, nNew,
                   nDelete>>
    /\ UNCHANGED instances

StartDequeue == Enter("dequeue", "d267", NoPoint)

\* 267-269: if (isEmpty()) error(...)
D267 ==
    /\ At("d267")
    /\ IF isEmpty(queue)
       THEN Throw
       ELSE /\ Goto("d270")
            /\ UNCHANGED <<members, allocated, results, nNew, nDelete,
                           history>>
    /\ UNCHANGED instances

\* 270: DataPoint root = heap[0]
D270 ==
    /\ At("d270")
    /\ frame' = [frame EXCEPT !.pc = "d271", !.root = heap[0]]
    /\ UNCHANGED <<members, allocated, results, nNew, nDelete, history>>
    /\ UNCHANGED instances

\* 271: heap[0] = heap[currentSize - 1]
D271 ==
    /\ At("d271")
    /\ heap' = [heap EXCEPT ![0] = heap[currentSize - 1]]
    /\ Goto("d272")
    /\ UNCHANGED <<currentSize, capacity, heapPtr, allocated, results, nNew,
                   nDelete, history>>
    /\ UNCHANGED instances

\* 272: currentSize--
D272 ==
    /\ At("d272")
    /\ currentSize' = currentSize - 1
    /\ Goto("d273")
    /\ UNCHANGED <<capacity, heap, heapPtr, allocated, results, nNew,
                   nDelete, history>>
    /\ UNCHANGED instances

\* 273, 245: bubbleDown(0); int size = currentSize
D273 ==
    /\ At("d273")
    /\ frame' = [frame EXCEPT !.pc = "b247", !.index = 0,
                              !.size = currentSize]
    /\ UNCHANGED <<members, allocated, results, nNew, nDelete, history>>
    /\ UNCHANGED instances

\* variant: the right child is not looked at
B247_leftOnly ==
    /\ At("b247")
    /\ LET index == frame.index
           left == leftChild(index)
           smallest == IF left < frame.size
                          /\ heap[left].weight < heap[index].weight
                       THEN left ELSE index
       IN IF smallest # index
          THEN /\ heap' = swap(heap, index, smallest)
               /\ frame' = [frame EXCEPT !.index = smallest,
                                         !.swaps = frame.swaps + 1]
          ELSE /\ frame' = [frame EXCEPT !.pc = "d274", !.index = 0,
                                         !.size = 0, !.swaps = 0]
               /\ UNCHANGED heap
    /\ UNCHANGED <<currentSize, capacity, heapPtr, allocated, results, nNew,
                   nDelete, history>>
    /\ UNCHANGED instances

\* variant: the right child wins when it is no heavier
B247_rightOnTie ==
    /\ At("b247")
    /\ LET index == frame.index
           left == leftChild(index)
           right == rightChild(index)
           s1 == IF left < frame.size
                    /\ heap[left].weight < heap[index].weight
                 THEN left ELSE index
           smallest == IF right < frame.size
                          /\ heap[right].weight <= heap[s1].weight
                       THEN right ELSE s1
       IN IF smallest # index
          THEN /\ heap' = swap(heap, index, smallest)
               /\ frame' = [frame EXCEPT !.index = smallest,
                                         !.swaps = frame.swaps + 1]
          ELSE /\ frame' = [frame EXCEPT !.pc = "d274", !.index = 0,
                                         !.size = 0, !.swaps = 0]
               /\ UNCHANGED heap
    /\ UNCHANGED <<currentSize, capacity, heapPtr, allocated, results, nNew,
                   nDelete, history>>
    /\ UNCHANGED instances

\* variant: the break is missing
B247_noBreak ==
    /\ At("b247")
    /\ LET index == frame.index
           left == leftChild(index)
           right == rightChild(index)
           s1 == IF left < frame.size
                    /\ heap[left].weight < heap[index].weight
                 THEN left ELSE index
           smallest == IF right < frame.size
                          /\ heap[right].weight < heap[s1].weight
                       THEN right ELSE s1
       IN IF smallest # index
          THEN /\ heap' = swap(heap, index, smallest)
               /\ frame' = [frame EXCEPT !.index = smallest,
                                         !.swaps = frame.swaps + 1]
          ELSE UNCHANGED <<heap, frame>>
    /\ UNCHANGED <<currentSize, capacity, heapPtr, allocated, results, nNew,
                   nDelete, history>>
    /\ UNCHANGED instances

\* 247-262: one iteration of the while (true) loop of bubbleDown
B247 ==
    /\ At("b247")
    /\ LET index == frame.index
           left == leftChild(index)
           right == rightChild(index)
           s1 == IF left < frame.size
                    /\ heap[left].weight < heap[index].weight
                 THEN left ELSE index
           smallest == IF right < frame.size
                          /\ heap[right].weight < heap[s1].weight
                       THEN right ELSE s1
       IN IF smallest # index
          THEN /\ heap' = swap(heap, index, smallest)
               /\ frame' = [frame EXCEPT !.index = smallest,
                                         !.swaps = frame.swaps + 1]
          ELSE /\ frame' = [frame EXCEPT !.pc = "d274", !.index = 0,
                                         !.size = 0, !.swaps = 0]
               /\ UNCHANGED heap
    /\ UNCHANGED <<currentSize, capacity, heapPtr, allocated, results, nNew,
                   nDelete, history>>
    /\ UNCHANGED instances

\* variant: shrinks as soon as the array is not full
D274_belowCapacity ==
    /\ At("d274")
    /\ frame' = IF size(queue) < capacity
                THEN [frame EXCEPT
                         !.pc = "r219", !.ret = "d277",
                         !.newCapacity =
                             max(INITIAL_CAPACITY,
                                 TruncDiv(capacity, growFactor))]
                ELSE [frame EXCEPT !.pc = "d277"]
    /\ UNCHANGED <<members, allocated, results, nNew, nDelete, history>>
    /\ UNCHANGED instances

\* 274-276: if (size() < shrinkThreshold * capacity)
\*              resize(max(INITIAL_CAPACITY, capacity / growFactor))
D274 ==
    /\ At("d274")
    /\ frame' = IF size(queue) * shrinkThreshold[2]
                      < shrinkThreshold[1] * capacity
                THEN [frame EXCEPT
                         !.pc = "r219", !.ret = "d277",
                         !.newCapacity =
                             max(INITIAL_CAPACITY,
                                 TruncDiv(capacity, growFactor))]
                ELSE [frame EXCEPT !.pc = "d277"]
    /\ UNCHANGED <<members, allocated, results, nNew, nDelete, history>>
    /\ UNCHANGED instances

\* 277: return root
D277 ==
    /\ At("d277")
    /\ retPoint' = frame.root
    /\ frame' = IdleFrame
    /\ enqCalls' = enqCalls - 1
    /\ live' = BagDel(live, frame.root)
    /\ drain' = IF tracking THEN Append(drain, frame.root) ELSE drain
    /\ UNCHANGED <<members, allocated, lastOp, threw, retInt, retBool, nNew,
                   nDelete, tracking, fill, script>>
    /\ UNCHANGED instances

\* peek, size and isEmpty are made of one test and one return
StepPeek == At("idle") /\ Peek

StepSize == At("idle") /\ Size

StepIsEmpty == At("idle") /\ IsEmpty

StepInputs == IF currentSize < MaxStepLen THEN DataPoints
              ELSE IF currentSize < MaxSize THEN {Filler} ELSE {}

NextSteps ==
    \/ \E data \in StepInputs : StartEnqueue(data)
    \/ E210 \/ E213 \/ E214 \/ E215 \/ U203
    \/ R219 \/ R222 \/ R223 \/ R226 \/ R227 \/ R228
    \/ StartDequeue
    \/ D267 \/ D270 \/ D271 \/ D272 \/ D273 \/ B247 \/ D274 \/ D277
    \/ StepPeek \/ StepSize \/ StepIsEmpty

SpecSteps == Init /\ [][NextSteps]_vars

\* the same statements on small queues of any DataPoints
StartEnqueueSmall(data) == currentSize < MaxStepSmall /\ StartEnqueue(data)

NextStepsSmall ==
    \/ \E data \in DataPoints : StartEnqueueSmall(data)
    \/ E210 \/ E213 \/ E214 \/ E215 \/ U203
    \/ R219 \/ R222 \/ R223 \/ R226 \/ R227 \/ R228
    \/ StartDequeue
    \/ D267 \/ D270 \/ D271 \/ D272 \/ D273 \/ B247 \/ D274 \/ D277

SpecStepsSmall == Init /\ [][NextStepsSmall]_vars

\* A call that has begun runs on: the code is single-threaded and nothing
\* suspends a member function, so the next statement of the running call
\* is always executed.  The caller is free to make no further call.
StartEnqueueFair(data) == currentSize < MaxFairLen /\ StartEnqueue(data)

RunningCall ==
    \/ E210 \/ E213 \/ E214 \/ E215 \/ U203
    \/ R219 \/ R222 \/ R223 \/ R226 \/ R227 \/ R228
    \/ D267 \/ D270 \/ D271 \/ D272 \/ D273 \/ B247 \/ D274 \/ D277

NextTerminates ==
    \/ \E data \in DataPoints : StartEnqueueFair(data)
    \/ StartDequeue
    \/ StepPeek \/ StepSize \/ StepIsEmpty
    \/ RunningCall

SpecTerminates ==
    Init /\ [][NextTerminates]_vars /\ WF_vars(RunningCall)

(* ------------------------------ destruction ---------------------------- *)
\* the queue goes out of scope between two calls
StartDestroy == Enter("~HeapPQueue", "x184", NoPoint)

\* 184: delete[] heap
X184 ==
    /\ At("x184")
    /\ allocated' = allocated \ {heapPtr}
    /\ nDelete' = nDelete + 1
    /\ Goto("x185")
    /\ UNCHANGED <<members, results, nNew, history>>
    /\ UNCHANGED instances

\* 185: heap = nullptr; the object is gone
X185 ==
    /\ At("x185")
    /\ heapPtr' = "null"
    /\ Goto("dead")
    /\ UNCHANGED <<currentSize, capacity, heap, allocated, results, nNew,
                   nDelete, history>>
    /\ UNCHANGED instances

NextLifetime ==
    \/ \E data \in StepInputs : StartEnqueue(data)
    \/ E210 \/ E213 \/ E214 \/ E215 \/ U203
    \/ R219 \/ R222 \/ R223 \/ R226 \/ R227 \/ R228
    \/ StartDequeue
    \/ D267 \/ D270 \/ D271 \/ D272 \/ D273 \/ B247 \/ D274 \/ D277
    \/ StepPeek \/ StepSize \/ StepIsEmpty
    \/ StartDestroy \/ X184 \/ X185

SpecLifetime == Init /\ [][NextLifetime]_vars

(* ------------------------------ two queues ----------------------------- *)
\* the arrays currently allocated
Allocated == {b \in DOMAIN memory : memory[b].live}

\* the object x as its member functions see it: its members, and the
\* array its member heap points at
Object(x) ==
    [currentSize |-> pqs[x].currentSize, capacity |-> pqs[x].capacity,
     heap |-> memory[pqs[x].heapPtr].cells, heapPtr |-> pqs[x].heapPtr]

\* variant: currentSize is one counter shared by all the objects
Store_sharedSize(x, r) ==
    /\ pqs' = [y \in QueueIds |->
                 IF y = x
                 THEN [currentSize |-> r.q.currentSize,
                       capacity |-> r.q.capacity,
                       heapPtr |-> r.q.heapPtr]
                 ELSE [pqs[y] EXCEPT !.currentSize = r.q.currentSize]]
    /\ memory' = [b \in TwoBufIds |->
                    [live |-> b \in r.alloc,
                     cells |-> IF b = r.q.heapPtr THEN r.q.heap
                               ELSE IF b \in r.alloc THEN memory[b].cells
                               ELSE <<>>]]
    /\ threw' = r.threw
    /\ nNew' = r.news
    /\ nDelete' = r.deletes

\* a member function of x has ended with outcome r: x has its new members,
\* the array x points at its new contents, a released array none
Store(x, r) ==
    /\ pqs' = [pqs EXCEPT ![x] = [currentSize |-> r.q.currentSize,
                                  capacity |-> r.q.capacity,
                                  heapPtr |-> r.q.heapPtr]]
    /\ memory' = [b \in TwoBufIds |->
                    [live |-> b \in r.alloc,
                     cells |-> IF b = r.q.heapPtr THEN r.q.heap
                               ELSE IF b \in r.alloc THEN memory[b].cells
                               ELSE <<>>]]
    /\ threw' = r.threw
    /\ nNew' = r.news
    /\ nDelete' = r.deletes

\* HeapPQueue pq1; HeapPQueue pq2; each constructor gets an array of its
\* own from new[]
InitTwo ==
    /\ Constructed
    /\ script = NoScript
    /\ \E p1 \in TwoBufIds : \E p2 \in TwoBufIds \ {p1} :
          /\ pqs = [x \in QueueIds |->
                      [currentSize |-> 0, capacity |-> INITIAL_CAPACITY,
                       heapPtr |-> IF x = "pq1" THEN p1 ELSE p2]]
          /\ memory = [b \in TwoBufIds |->
                         IF b \in {p1, p2}
                         THEN [live |-> TRUE,
                               cells |-> NewArray(INITIAL_CAPACITY)]
                         ELSE [live |-> FALSE, cells |-> <<>>]]

TwoInputs(x) == IF pqs[x].currentSize < MaxTwoLen THEN DataPoints ELSE {}

\* x.enqueue(data)
TwoEnqueue(x, data) ==
    /\ \E p \in TwoBufIds \ Allocated :
          Store(x, enqueue(Object(x), Allocated, data, p))
    /\ lastOp' = x \o ".enqueue"
    /\ retPoint' = NoPoint
    /\ UNCHANGED <<members, allocated, retInt, retBool, history, frame>>

\* x.dequeue()
TwoDequeue(x) ==
    /\ \E p \in TwoBufIds \ Allocated :
          LET r == dequeue(Object(x), Allocated, p)
          IN /\ Store(x, r.out)
             /\ retPoint' = r.root
    /\ lastOp' = x \o ".dequeue"
    /\ UNCHANGED <<members, allocated, retInt, retBool, history, frame>>

NextTwo ==
    \/ \E x \in QueueIds : \E data \in TwoInputs(x) : TwoEnqueue(x, data)
    \/ \E x \in QueueIds : TwoDequeue(x)

SpecTwo == InitTwo /\ [][NextTwo]_vars

(* ------------- two queues driven by the same sequence of calls --------- *)
\* the caller makes each call on pq1 and then, with the same argument, on
\* pq2; pc: which of the two is next; op, data: the call made on pq1
SameCalls == [pc |-> "first", op |-> "none", data |-> NoPoint]

InitSame ==
    /\ Constructed
    /\ script = SameCalls
    /\ \E p1 \in TwoBufIds : \E p2 \in TwoBufIds \ {p1} :
          /\ pqs = [x \in QueueIds |->
                      [currentSize |-> 0, capacity |-> INITIAL_CAPACITY,
                       heapPtr |-> IF x = "pq1" THEN p1 ELSE p2]]
          /\ memory = [b \in TwoBufIds |->
                         IF b \in {p1, p2}
                         THEN [live |-> TRUE,
                               cells |-> NewArray(INITIAL_CAPACITY)]
                         ELSE [live |-> FALSE, cells |-> <<>>]]

\* x.enqueue(data), x.dequeue() or x.peek()
SameCall(x, op, data) ==
    /\ CASE op = "enqueue" ->
              /\ \E p \in TwoBufIds \ Allocated :
                    Store(x, enqueue(Object(x), Allocated, data, p))
              /\ retPoint' = NoPoint
         [] op = "dequeue" ->
              \E p \in TwoBufIds \ Allocated :
                 LET r == dequeue(Object(x), Allocated, p)
                 IN /\ Store(x, r.out)
                    /\ retPoint' = r.root
         [] op = "peek" ->
              LET r == peek(Object(x))
              IN /\ threw' = r.threw
                 /\ retPoint' = r.ret
                 /\ nNew' = 0
                 /\ nDelete' = 0
                 /\ UNCHANGED instances
    /\ lastOp' = x \o "." \o op
    /\ UNCHANGED <<members, allocated, retInt, retBool, frame>>
    /\ UNCHANGED <<enqCalls, live, tracking, fill, drain>>

SameInputs == IF pqs["pq1"].currentSize < MaxSameLen THEN DataPoints ELSE {}

\* the call on pq1
SameFirst(op, data) ==
    /\ script.pc = "first"
    /\ SameCall("pq1", op, data)
    /\ script' = [pc |-> "second", op |-> op, data |-> data]

\* the same call on pq2
SameSecond ==
    /\ script.pc = "second"
    /\ SameCall("pq2", script.op, script.data)
    /\ script' = SameCalls

NextSame ==
    \/ \E data \in SameInputs : SameFirst("enqueue", data)
    \/ SameFirst("dequeue", NoPoint)
    \/ SameFirst("peek", NoPoint)
    \/ SameSecond

SpecSame == InitSame /\ [][NextSame]_vars

TypeOK ==
    /\ currentSize \in Nat
    /\ DOMAIN heap = 0..(capacity - 1)
    /\ heapPtr \in allocated

(* --------------------------- property helpers -------------------------- *)
\* indices [0, n) of h
Live(n) == 0..(n - 1)
\* how many of the slots [0, n) of h hold the record d
Count(h, n, d) == Cardinality({i \in Live(n) : h[i] = d})
Records(h, n) == {h[i] : i \in Live(n)}
\* how many entries of the sequence s equal d / have weight w
SeqCount(s, d) == Cardinality({i \in 1..Len(s) : s[i] = d})
SeqWeightCount(s, w) == Cardinality({i \in 1..Len(s) : s[i].weight = w})
HeapOrdered(h, n) ==
    \A i \in 1..(n - 1) : h[TruncDiv(i - 1, 2)].weight <= h[i].weight
QueueUnchanged == UNCHANGED <<currentSize, capacity, heap, heapPtr, allocated>>

(* -------------------------------- claims ------------------------------- *)

\* C1: after every completed enqueue and dequeue, also one that grew or
\* shrank the array, every live index i >= 1 has
\* heap[(i-1)/2].weight <= heap[i].weight.
C1_MinHeapInvariant == HeapOrdered(heap, currentSize)

\* an enqueue has just grown the array to capacity 200, and the heap holds
\* records of different weights
C1_Witness ==
    /\ lastOp = "enqueue" /\ nNew = 1 /\ capacity = 2 * INITIAL_CAPACITY
    /\ currentSize = INITIAL_CAPACITY + 1
    /\ heap[0].weight < heap[1].weight
    /\ heap[2].weight < heap[1].weight

\* C2: dequeue on a non-empty queue returns a record whose weight is <= the
\* weight of every record queued before the call, and removes exactly that
\* one occurrence.
C2_DequeueReturnsMinimum ==
    [][(lastOp' = "dequeue" /\ currentSize > 0) =>
          /\ ~threw'
          /\ \A i \in Live(currentSize) : retPoint'.weight <= heap[i].weight
          /\ currentSize' = currentSize - 1
          /\ \A d \in Records(heap, currentSize) \cup {retPoint'} :
                Count(heap', currentSize', d) =
                    Count(heap, currentSize, d)
                        - (IF d = retPoint' THEN 1 ELSE 0)]_vars

\* a dequeue returned a record strictly lighter than all that remain
C2_Witness ==
    /\ lastOp = "dequeue" /\ ~threw /\ currentSize >= 3
    /\ \A i \in Live(currentSize) : retPoint.weight < heap[i].weight
    /\ heap[1].weight # heap[2].weight

\* C3: records enqueued into a fresh queue in any order come out of
\* repeated dequeues in non-decreasing order of weight, and the queue is
\* empty exactly when as many have been dequeued as were enqueued.
C3_SortedExtraction ==
    tracking =>
        /\ \A i \in 1..(Len(drain) - 1) :
              drain[i].weight <= drain[i + 1].weight
        /\ Len(drain) <= Len(fill)
        /\ isEmpty(queue) <=> (Len(drain) = Len(fill))

\* MaxSmall records, enqueued neither sorted nor reverse-sorted and with a
\* negative weight among them, have all been dequeued
C3_Witness ==
    /\ tracking /\ Len(fill) = MaxSmall /\ Len(drain) = Len(fill)
    /\ fill[1].weight > fill[2].weight
    /\ fill[2].weight < fill[3].weight
    /\ fill[Len(fill)].weight < fill[1].weight
    /\ drain[1].weight < 0
    /\ isEmpty(queue)

\* C4: size() is the number of enqueue calls minus the number of dequeue
\* calls that returned a record; failed dequeues and peeks do not count.
C4_SizeAccounting ==
    /\ size(queue) = enqCalls
    /\ lastOp = "size" => retInt = enqCalls

\* size() is called on a queue that has grown past its initial capacity
\* and has had records dequeued since
C4_Witness ==
    /\ lastOp = "size" /\ retInt > INITIAL_CAPACITY
    /\ capacity = 2 * INITIAL_CAPACITY
    /\ heap[currentSize] # Indeterminate

\* C5: the records at indices [0, currentSize) are, with multiplicity, the
\* records enqueued minus the records returned by dequeue, across every
\* reallocation.
C5_NoElementLoss ==
    \A d \in AllPoints \cup Records(heap, currentSize) :
        Count(heap, currentSize, d) = (IF d \in AllPoints THEN live[d] ELSE 0)

\* a dequeue has just shrunk the array from capacity 200 back to 100
C5_Witness ==
    /\ lastOp = "dequeue" /\ nNew = 1 /\ capacity = INITIAL_CAPACITY
    /\ 4 * currentSize >= INITIAL_CAPACITY

\* C6: dequeue on an empty queue reports an error, returns nothing and
\* leaves currentSize, capacity, the array and its identity unchanged,
\* allocating and releasing nothing.
C6_DequeueOnEmpty ==
    [][(lastOp' = "dequeue" /\ currentSize = 0) =>
          /\ threw' /\ retPoint' = NoPoint
          /\ QueueUnchanged
          /\ nNew' = 0 /\ nDelete' = 0]_vars

\* dequeue failed on a queue that was filled and drained before
C6_Witness ==
    /\ lastOp = "dequeue" /\ threw /\ currentSize = 0
    /\ tracking /\ Len(fill) > 0 /\ Len(drain) = Len(fill)

\* C7: peek on an empty queue reports an error, returns no record and
\* leaves currentSize, capacity and the array unchanged.
C7_PeekOnEmpty ==
    [][(lastOp' = "peek" /\ currentSize = 0) =>
          /\ threw' /\ retPoint' = NoPoint
          /\ QueueUnchanged]_vars

\* peek failed on a queue that was filled and drained before
C7_Witness ==
    /\ lastOp = "peek" /\ threw /\ currentSize = 0
    /\ tracking /\ Len(fill) > 0 /\ Len(drain) = Len(fill)

\* C8: peek on a non-empty queue returns a record of minimum weight and
\* removes nothing, and a dequeue called right after it returns that same
\* record.
C8_PeekIsNextDequeue ==
    [][/\ (lastOp' = "peek" /\ currentSize > 0) =>
             /\ ~threw'
             /\ \A i \in Live(currentSize) :
                   retPoint'.weight <= heap[i].weight
             /\ QueueUnchanged
       /\ (lastOp = "peek" /\ ~threw /\ lastOp' = "dequeue") =>
             /\ ~threw'
             /\ retPoint' = retPoint]_vars

\* peek returned a record from a queue that holds another record of the
\* same weight under a different name
C8_Witness ==
    /\ lastOp = "peek" /\ ~threw /\ currentSize >= 3
    /\ \E i \in Live(currentSize) \ {0} :
          /\ heap[i].weight = retPoint.weight
          /\ heap[i].name # retPoint.name

\* C9: isEmpty() is true exactly when size() is 0: true on a fresh queue,
\* false whenever more records were enqueued than dequeued.
C9_IsEmptyIffSizeZero ==
    /\ isEmpty(queue) <=> (size(queue) = 0)
    /\ isEmpty(queue) <=> (enqCalls = 0)
    /\ lastOp = "isEmpty" => (retBool <=> (enqCalls = 0))
    /\ lastOp = "HeapPQueue" => isEmpty(queue) /\ size(queue) = 0

\* isEmpty() returned true on a queue that was filled and drained before
C9_Witness ==
    /\ lastOp = "isEmpty" /\ retBool
    /\ tracking /\ Len(fill) > 0 /\ Len(drain) = Len(fill)

\* C10: records of equal weight are all kept: a drain returns each
\* enqueued record exactly once, and records of the same weight come out
\* one right after the other.
C10_DuplicatesKept ==
    tracking =>
        /\ \A i, k \in 1..Len(drain) :
              (i < k /\ drain[i].weight = drain[k].weight) =>
                  \A j \in i..k : drain[j].weight = drain[i].weight
        /\ \A d \in AllPoints : SeqCount(drain, d) <= SeqCount(fill, d)
        /\ Len(drain) = Len(fill) =>
              /\ \A d \in AllPoints : SeqCount(drain, d) = SeqCount(fill, d)
              /\ \A i \in 1..Len(fill) :
                    SeqWeightCount(drain, fill[i].weight) =
                        SeqWeightCount(fill, fill[i].weight)

\* three records of weight 0, two of them identical, were enqueued among
\* others and all were dequeued
C10_Witness ==
    /\ tracking /\ Len(fill) = MaxSmall /\ Len(drain) = Len(fill)
    /\ SeqWeightCount(fill, 0) = 3
    /\ SeqCount(fill, [name |-> "a", weight |-> 0]) = 2
    /\ SeqCount(fill, [name |-> "b", weight |-> 0]) = 1
    /\ fill[1].weight = 1 /\ fill[MaxSmall].weight = -1

\* C11: the scripted test: after weights 0..119 are enqueued, 100 dequeues
\* return elem0..elem99 in order; after weights 120..149 are enqueued, the
\* drain loop returns exactly elem100..elem149 in order, and then size()
\* is 0 and isEmpty() is true.
C11_ResizeScenario ==
    /\ (lastOp = "dequeue" /\ script.pc = "drain1") =>
          ~threw /\ retPoint = Elem(script.i - 1)
    /\ (lastOp = "dequeue" /\ script.pc = "fill2") =>
          ~threw /\ retPoint = Elem(FirstDrain - 1)
    /\ (lastOp = "dequeue" /\ script.pc = "while") =>
          ~threw /\ retPoint = Elem(FirstDrain + script.n - 1)
    /\ script.pc \in {"size", "isEmpty", "done"} =>
          script.n = SecondFill - FirstDrain
    /\ script.pc = "isEmpty" => retInt = 0
    /\ script.pc = "done" => retBool

\* the scripted test has run to its end
C11_Witness ==
    /\ script.pc = "done" /\ lastOp = "isEmpty"
    /\ script.n = SecondFill - FirstDrain
    /\ currentSize = 0

(* The array the member heap points at has exactly capacity slots. *)
BufferMatchesCapacity ==
    /\ heapPtr \in allocated
    /\ DOMAIN heap = 0 .. capacity - 1

(* C12, as stated: at every step, inside enqueue, dequeue and resize too,
   0 <= currentSize <= capacity and the allocated buffer has exactly
   capacity slots. *)
C12_BoundsAtEveryStep_Original ==
    /\ 0 <= currentSize
    /\ currentSize <= capacity
    /\ BufferMatchesCapacity

(* C12, amended: 0 <= currentSize <= capacity holds at every step; the
   buffer has exactly capacity slots at every step except the two inside
   resize that follow delete[] heap: before heap = newHeap the member
   points at released storage, and before capacity = newCapacity it points
   at an array of newCapacity slots. *)
C12_BoundsAtEveryStep ==
    /\ 0 <= currentSize
    /\ currentSize <= capacity
    /\ frame.pc \notin {"r227", "r228"} => BufferMatchesCapacity
    /\ At("r227") => heapPtr \notin allocated
    /\ At("r228") => /\ heapPtr \in allocated
                     /\ DOMAIN heap = 0 .. frame.newCapacity - 1

(* C12 witness: inside the growing resize of an enqueue, after the new
   array of 200 slots is adopted and before capacity is assigned. *)
C12_Witness ==
    /\ At("r228") /\ lastOp = "enqueue"
    /\ capacity = INITIAL_CAPACITY
    /\ currentSize = INITIAL_CAPACITY
    /\ DOMAIN heap = 0 .. INITIAL_CAPACITY * growFactor - 1

(* C13: the capacity is never below INITIAL_CAPACITY, whatever the number
   of elements, the empty queue included. *)
C13_CapacityFloor == capacity >= INITIAL_CAPACITY

(* C13 witness: a dequeue has emptied the queue and called resize while
   half the capacity is below the floor; the capacity is the floor. *)
C13_Witness ==
    /\ lastOp = "dequeue" /\ ~threw /\ nNew = 1
    /\ currentSize = 0
    /\ TruncDiv(capacity, growFactor) < INITIAL_CAPACITY
    /\ capacity = INITIAL_CAPACITY

(* The statements that read or write through the member heap, and the
   two that release it. *)
UsesHeap == frame.pc \in {"r223", "e213", "u203", "d270", "d271", "b247"}
ReleasesHeap == frame.pc \in {"r226", "x184"}

(* C14: from construction to destruction, between operations the live
   queue owns exactly one allocated buffer; a call allocates at most once
   and releases as often as it allocates; a call that raised an error did
   neither; what is released is allocated (no double release); what is
   read or written is allocated (no use after release); after the
   destructor nothing is allocated (no leak). *)
C14_AllocationPaired ==
    /\ At("idle") => /\ allocated = {heapPtr}
                     /\ nNew <= 1
                     /\ nDelete = IF lastOp = "HeapPQueue" THEN 0 ELSE nNew
                     /\ threw => nNew = 0
    /\ ReleasesHeap => heapPtr \in allocated
    /\ UsesHeap => heapPtr \in allocated
    /\ At("r223") => frame.newPtr \in allocated \ {heapPtr}
    /\ At("dead") => /\ allocated = {}
                     /\ heapPtr = "null"
                     /\ nNew = 0 /\ nDelete = 1

(* C14 witness: a queue whose buffer was reallocated to 200 slots has
   been destroyed with elements still in it. *)
C14_Witness ==
    /\ At("dead")
    /\ capacity = INITIAL_CAPACITY * growFactor
    /\ currentSize > INITIAL_CAPACITY

(* C15: whenever resize is entered, from the grow trigger of enqueue or
   the shrink trigger of dequeue, newCapacity >= currentSize; the only
   errors ever raised are those of dequeue and peek on an empty queue. *)
C15_InvalidResizeUnreachable ==
    /\ At("r219") => frame.newCapacity >= currentSize
    /\ threw => lastOp \in {"dequeue", "peek"} /\ currentSize = 0

(* C15 witness: dequeue enters resize to shrink 200 slots to 100 with 49
   elements left. *)
C15_Witness ==
    /\ At("r219") /\ lastOp = "dequeue"
    /\ capacity = INITIAL_CAPACITY * growFactor
    /\ frame.newCapacity = INITIAL_CAPACITY
    /\ currentSize = 49

(* C16: isEmpty(), size() and peek() leave currentSize, capacity, the
   identity of the buffer and every slot of it unchanged, and allocate and
   release nothing, so the dequeue and the peek that follow return what
   they would have returned without the call. *)
C16_ReadOnlyOperations ==
    [][lastOp' \in {"isEmpty", "size", "peek"} =>
          /\ QueueUnchanged
          /\ nNew' = 0 /\ nDelete' = 0
          /\ peek(queue') = peek(queue)
          /\ \A p \in BufIds \ allocated :
                dequeue(queue', allocated', p) = dequeue(queue, allocated, p)
      ]_vars

(* C16 witness: a successful peek on a queue whose buffer is full. *)
C16_Witness ==
    /\ lastOp = "peek" /\ ~threw
    /\ currentSize = capacity
    /\ retPoint = heap[0]

(* C17: with two live queues, each holds an allocated array and the two
   never hold the same one, and an enqueue or a dequeue on one queue
   leaves the size, the capacity and the contents seen through the other
   queue unchanged. *)
C17_ExclusiveOwnership ==
    /\ [](\A x \in QueueIds :
             /\ pqs[x].heapPtr \in Allocated
             /\ \A y \in QueueIds \ {x} : pqs[x].heapPtr # pqs[y].heapPtr)
    /\ [][\A x \in QueueIds :
             lastOp' \in {x \o ".enqueue", x \o ".dequeue"}
                => \A y \in QueueIds \ {x} : Object(y)' = Object(y)]_vars

(* C17 witness: both queues hold elements, with different minima, and a
   dequeue on the second has just moved the second to a new array. *)
C17_Witness ==
    /\ pqs # NoInstances
    /\ pqs["pq1"].currentSize = MaxTwoLen
    /\ pqs["pq2"].currentSize > 0
    /\ lastOp = "pq2.dequeue" /\ nNew = 1 /\ nDelete = 1
    /\ Object("pq1").heap[0] # Object("pq2").heap[0]

(* C18: an enqueue entered with currentSize = capacity calls resize with
   capacity * growFactor and adopts that capacity and a new array before
   it writes; the write at index currentSize always finds
   currentSize < capacity; an enqueue entered with currentSize < capacity
   goes straight to the write, and from the write on neither the capacity
   nor the array changes; no step of enqueue lowers the capacity. *)
C18_GrowRule ==
    [][lastOp' = "enqueue" =>
          /\ capacity' >= capacity
          /\ (At("e210") /\ currentSize = capacity) =>
                /\ frame'.pc = "r219" /\ frame'.ret = "e213"
                /\ frame'.newCapacity = capacity * growFactor
          /\ (At("e210") /\ currentSize < capacity) => frame'.pc = "e213"
          /\ At("r228") => /\ capacity' = capacity * growFactor
                           /\ currentSize = capacity
                           /\ DOMAIN heap = 0 .. capacity' - 1
                           /\ frame'.pc = "e213"
          /\ At("r227") => heapPtr' # heapPtr
          /\ ~At("r228") => capacity' = capacity
          /\ ~At("r227") => heapPtr' = heapPtr
          /\ At("e213") => /\ currentSize < capacity
                           /\ heap'[currentSize] = frame.data
                           /\ \A i \in DOMAIN heap \ {currentSize} :
                                 heap'[i] = heap[i]
      ]_vars

(* C18 witness: enqueue is about to write at index 100 of the array of
   200 slots it has just adopted. *)
C18_Witness ==
    /\ At("e213") /\ lastOp = "enqueue"
    /\ currentSize = INITIAL_CAPACITY
    /\ capacity = INITIAL_CAPACITY * growFactor
    /\ nNew = 1 /\ nDelete = 1

(* C19: a successful dequeue leaves the capacity at
   max(INITIAL_CAPACITY, capacity / growFactor), rounded down, when the
   decremented currentSize is below shrinkThreshold * capacity, and at its
   old value otherwise; it never raises the capacity. *)
C19_ShrinkRule ==
    [][(lastOp' = "dequeue" /\ ~threw') =>
          /\ currentSize' = currentSize - 1
          /\ capacity' =
                IF shrinkThreshold[2] * currentSize'
                      < shrinkThreshold[1] * capacity
                THEN max(INITIAL_CAPACITY, capacity \div growFactor)
                ELSE capacity
          /\ capacity' <= capacity
          /\ DOMAIN heap' = 0 .. capacity' - 1
      ]_vars

(* C19 witness: the dequeue that left 49 elements in 200 slots has halved
   the capacity. *)
C19_Witness ==
    /\ lastOp = "dequeue" /\ ~threw
    /\ capacity = INITIAL_CAPACITY
    /\ shrinkThreshold[2] * (currentSize + 1)
          = shrinkThreshold[1] * INITIAL_CAPACITY * growFactor
    /\ nNew = 1 /\ nDelete = 1

(* C20: an enqueue or a dequeue that reallocates adopts a capacity other
   than the one it had, and a dequeue on a queue at INITIAL_CAPACITY does
   not reallocate. *)
C20_ReallocationChangesCapacity ==
    [][lastOp' \in {"enqueue", "dequeue"} =>
          /\ nNew' > 0 => capacity' # capacity
          /\ (lastOp' = "dequeue" /\ capacity = INITIAL_CAPACITY) =>
                nNew' = 0 /\ heapPtr' = heapPtr
      ]_vars

(* C21: once the caller alternates enqueue and dequeue strictly, from
   whatever state, the capacity changes at most once: a call changes it
   only if it still is what it was when the alternation began. *)
C21_NoThrashing ==
    [][(script.pc = "alt" /\ capacity' # capacity) => capacity = script.n]_vars

(* C21 witness: the alternation began with 100 elements in 100 slots, its
   first enqueue grew the array to 200 slots, and after a dequeue the next
   enqueue finds room. *)
C21_Witness ==
    /\ script.pc = "alt" /\ script.n = INITIAL_CAPACITY
    /\ capacity = INITIAL_CAPACITY * growFactor
    /\ lastOp = "enqueue" /\ nNew = 0
    /\ currentSize = INITIAL_CAPACITY + 1

(* C22: right after an enqueue that grew the array the queue is not
   eligible for a shrink: it holds half the new capacity plus one
   element, which is not below shrinkThreshold * capacity. *)
C22_GrowNotShrinkEligible ==
    (lastOp = "enqueue" /\ nNew > 0) =>
        /\ currentSize = TruncDiv(capacity, growFactor) + 1
        /\ shrinkThreshold[2] * currentSize >= shrinkThreshold[1] * capacity

(* C22 witness: the enqueue of the 101st element has grown the array to
   200 slots. *)
C22_Witness ==
    /\ lastOp = "enqueue" /\ nNew = 1 /\ nDelete = 1
    /\ capacity = INITIAL_CAPACITY * growFactor
    /\ currentSize = INITIAL_CAPACITY + 1

(* C23, as stated: the 120 enqueues of the scripted test reallocate to a
   larger capacity at least twice and its 100 dequeues reallocate to a
   smaller capacity at least once.  Only enqueues run before the first
   dequeue and each grow doubles the capacity, so two grows leave at least
   4 * INITIAL_CAPACITY slots when the dequeues begin. *)
C23_TwoGrows_Original ==
    /\ (script.pc = "drain1" /\ script.i = 0) =>
          capacity >= INITIAL_CAPACITY * growFactor * growFactor
    /\ (script.pc = "fill2" /\ script.i = FirstFill) =>
          capacity < INITIAL_CAPACITY * growFactor * growFactor

(* C23, amended: the 120 enqueues change the capacity exactly once, from
   100 to 200 at the 101st enqueue, and the 100 dequeues change it exactly
   once, from 200 to 100 at the dequeue that leaves 49 elements. *)
C23_OneGrowOneShrink ==
    [][/\ (script.pc = "fill1" /\ capacity' # capacity) =>
             /\ script.i = INITIAL_CAPACITY
             /\ capacity = INITIAL_CAPACITY
       /\ (script.pc = "fill1" /\ script.i = INITIAL_CAPACITY) =>
             capacity' = INITIAL_CAPACITY * growFactor
       /\ (script.pc = "drain1" /\ capacity' # capacity) =>
             /\ shrinkThreshold[2] * (currentSize' + 1)
                   = shrinkThreshold[1] * capacity
             /\ capacity = INITIAL_CAPACITY * growFactor
       /\ (script.pc = "drain1"
             /\ shrinkThreshold[2] * currentSize
                   = shrinkThreshold[1] * INITIAL_CAPACITY * growFactor) =>
             capacity' = INITIAL_CAPACITY
      ]_vars

(* C23 witness: the 100 dequeues are over, 20 elements are left in 100
   slots. *)
C23_Witness ==
    /\ script.pc = "fill2" /\ script.i = FirstFill
    /\ lastOp = "dequeue"
    /\ currentSize = FirstFill - FirstDrain
    /\ capacity = INITIAL_CAPACITY

(* C24: resize(newCapacity) with newCapacity >= currentSize leaves
   currentSize and the elements at [0, currentSize) as they were, index
   by index, sets capacity to newCapacity, and leaves the queue with a
   newly allocated array of newCapacity slots, the old one released. *)
C24_ResizeKeepsElements ==
    [][\A newCapacity \in ResizeArgs :
          (Resize(newCapacity) /\ newCapacity >= currentSize) =>
              /\ ~threw'
              /\ currentSize' = currentSize
              /\ \A i \in Live(currentSize) : heap'[i] = heap[i]
              /\ HeapOrdered(heap', currentSize')
              /\ capacity' = newCapacity
              /\ DOMAIN heap' = 0 .. newCapacity - 1
              /\ heapPtr' # heapPtr
              /\ allocated' = {heapPtr'}
              /\ nNew' = 1 /\ nDelete' = 1
      ]_vars

(* C24 witness: resize(currentSize) on a queue of three elements. *)
C24_Witness ==
    /\ lastOp = "resize" /\ ~threw
    /\ currentSize = MaxResizeLen
    /\ capacity = currentSize
    /\ heap[0].weight < heap[currentSize - 1].weight

(* C25: resize(newCapacity) with newCapacity < currentSize reports an
   error and leaves currentSize, capacity, the array and its address
   unchanged; nothing is allocated, released or truncated. *)
C25_ResizeTooSmall ==
    [][\A newCapacity \in ResizeArgs :
          (Resize(newCapacity) /\ newCapacity < currentSize) =>
              /\ threw'
              /\ QueueUnchanged
              /\ nNew' = 0 /\ nDelete' = 0
      ]_vars

(* C25 witness: resize failed on a queue of three elements. *)
C25_Witness ==
    /\ lastOp = "resize" /\ threw
    /\ currentSize = MaxResizeLen
    /\ capacity = INITIAL_CAPACITY
    /\ heap[currentSize - 1] # Indeterminate

(* the indices on the way from index i up to the root, i excluded *)
RECURSIVE Ancestors(_)
Ancestors(i) == IF i <= 0 THEN {} ELSE {parent(i)} \cup Ancestors(parent(i))

(* C26: an enqueue moves out of its slot only elements of strictly larger
   weight than the new one; every ancestor of the insertion index whose
   weight is less than or equal to the new weight keeps its slot; and when
   the parent of the insertion index is no heavier than the new element
   (or the queue is empty) the array changes at index currentSize only. *)
C26_SiftUpStrict ==
    [][\A data \in DataPoints :
          (Enqueue(data) /\ currentSize < capacity) =>
              /\ \A i \in Live(currentSize) :
                    heap'[i] # heap[i] => heap[i].weight > data.weight
              /\ \A k \in Ancestors(currentSize) :
                    heap[k].weight <= data.weight => heap'[k] = heap[k]
              /\ (currentSize = 0
                    \/ data.weight >= heap[parent(currentSize)].weight) =>
                    heap' = [heap EXCEPT ![currentSize] = data]
      ]_vars

(* C26 witness: a record was enqueued under a parent of the same weight
   and another name, and stayed in the last slot. *)
C26_Witness ==
    /\ lastOp = "enqueue" /\ currentSize >= 2
    /\ heap[currentSize - 1].weight = heap[parent(currentSize - 1)].weight
    /\ heap[currentSize - 1].name # heap[parent(currentSize - 1)].name
    /\ Len(fill) = currentSize
    /\ fill[Len(fill)] = heap[currentSize - 1]

(* the children of index i that lie inside the first n slots *)
ChildrenInRange(i, n) == {c \in {leftChild(i), rightChild(i)} : c < n}

(* C27: an iteration of the sift-down of dequeue swaps the current element
   with a child only if that child is strictly lighter; the child taken is
   the lightest in range, the left one when both weigh the same; the walk
   ends, the array unchanged, exactly when no child in range is strictly
   lighter. *)
C27_SiftDownSmallestOfThree ==
    [][At("b247") =>
          LET index == frame.index
              kids == ChildrenInRange(index, currentSize)
              lighter == {c \in kids : heap[c].weight < heap[index].weight}
          IN /\ frame.size = currentSize
             /\ lighter = {} =>
                   /\ frame'.pc = "d274"
                   /\ heap' = heap
             /\ lighter # {} =>
                   LET chosen == frame'.index
                   IN /\ frame'.pc = "b247"
                      /\ chosen \in lighter
                      /\ \A c \in kids : heap[chosen].weight <= heap[c].weight
                      /\ (\A c \in kids : heap[c].weight = heap[chosen].weight)
                            => chosen = leftChild(index)
                      /\ heap' = swap(heap, index, chosen)
      ]_vars

(* C27 witness: the sift-down has just swapped the root with its left
   child, the right child being a different record of the same weight. *)
C27_Witness ==
    /\ At("b247") /\ frame.index = leftChild(0)
    /\ frame.size >= 3
    /\ heap[0].weight = heap[rightChild(0)].weight
    /\ heap[0].name # heap[rightChild(0)].name
    /\ heap[leftChild(0)].weight > heap[0].weight

(* floor(log2(n)) for n >= 1 *)
RECURSIVE Log2(_)
Log2(n) == IF n <= 1 THEN 0 ELSE 1 + Log2(n \div 2)

(* C28: the sift-up of an enqueue makes at most floor(log2(n)) swaps, n
   the currentSize after the insertion; the sift-down of a dequeue makes at
   most floor(log2(n)) swaps, n the currentSize before the removal; the
   index of the sift-up only decreases and that of the sift-down only
   increases, so no index is visited twice. *)
C28_LogarithmicSwaps ==
    [][/\ (At("u203") /\ frame'.pc = "u203") =>
             /\ heap' = swap(heap, frame.index, frame'.index)
             /\ frame'.index < frame.index
             /\ frame'.swaps = frame.swaps + 1
             /\ frame'.swaps <= Log2(currentSize)
       /\ (At("b247") /\ frame'.pc = "b247") =>
             /\ heap' = swap(heap, frame.index, frame'.index)
             /\ frame'.index > frame.index
             /\ frame'.swaps = frame.swaps + 1
             /\ frame'.swaps <= Log2(currentSize + 1)
       /\ (frame.pc \in {"e215", "d273"}) => frame'.swaps = 0
      ]_vars

(* C28 witness: the fourth element enqueued has reached the root after
   floor(log2(4)) = 2 swaps. *)
C28_Witness ==
    /\ At("u203") /\ frame.index = 0
    /\ currentSize = 4
    /\ frame.swaps = Log2(currentSize)
    /\ heap[0] = frame.data

(* C29: every call returns or raises its error: a call that is running
   leads to no call running, whatever the weights; peek, size and isEmpty
   are over in the step that makes them. *)
C29_CallsTerminate == (~At("idle")) ~> At("idle")

(* C29 witness: a dequeue has returned after a sift-down among elements
   of equal weight and a resize that copied two elements. *)
C29_Witness ==
    /\ At("idle") /\ lastOp = "dequeue" /\ ~threw
    /\ nNew = 1 /\ currentSize = 2
    /\ heap[0].weight = heap[1].weight
    /\ retPoint.weight = heap[0].weight

(* the members of a queue right after construction, at address p *)
FreshQueue(p) ==
    [currentSize |-> 0, capacity |-> INITIAL_CAPACITY,
     heap |-> NewArray(INITIAL_CAPACITY), heapPtr |-> p]

(* C30: a queue that holds no element between two calls, whatever was
   called before, has the members of a freshly constructed queue, up to
   the address of its array, which no result depends on: enqueue, dequeue
   and peek give on it what they give on a fresh queue, call after call. *)
C30_DrainedIsFresh ==
    currentSize = 0 =>
        /\ queue = FreshQueue(heapPtr)
        /\ allocated = {heapPtr}
        /\ peek(queue) = peek(FreshQueue(heapPtr))
        /\ \A p \in BufIds \ allocated :
              /\ dequeue(queue, allocated, p)
                    = dequeue(FreshQueue(heapPtr), allocated, p)
              /\ \A data \in DataPoints :
                    enqueue(queue, allocated, data, p)
                        = enqueue(FreshQueue(heapPtr), allocated, data, p)

(* C30 witness: three elements were enqueued and dequeued, and the empty
   queue is at another address than at construction. *)
C30_Witness ==
    /\ currentSize = 0 /\ lastOp = "dequeue" /\ ~threw
    /\ tracking /\ Len(fill) = MaxLen /\ Len(drain) = MaxLen
    /\ heapPtr # "b1"

(* The slots of the array behind the member heap that the statement the
   call is about to execute reads, with the short-circuit evaluation of
   its conditions; between calls, the slot a peek() would read. *)
HeapReads ==
    CASE At("idle") -> IF isEmpty(queue) THEN {} ELSE {0}
      [] At("r223") -> IF frame.i < currentSize THEN {frame.i} ELSE {}
      [] At("u203") -> IF frame.index > 0
                       THEN {frame.index, parent(frame.index)} ELSE {}
      [] At("d270") -> {0}
      [] At("d271") -> {currentSize - 1}
      [] At("b247") ->
            LET index == frame.index
                left == leftChild(index)
                right == rightChild(index)
                s1 == IF left < frame.size
                         /\ heap[left].weight < heap[index].weight
                      THEN left ELSE index
            IN (IF left < frame.size THEN {left, index} ELSE {})
               \cup (IF right < frame.size THEN {right, s1} ELSE {})
      [] OTHER -> {}

(* The slots of that array the statement writes. *)
HeapWrites ==
    CASE At("e213") -> {currentSize}
      [] At("u203") ->
            IF /\ frame.index > 0
               /\ heap[frame.index].weight < heap[parent(frame.index)].weight
            THEN {frame.index, parent(frame.index)} ELSE {}
      [] At("d271") -> {0}
      [] At("b247") ->
            LET index == frame.index
                left == leftChild(index)
                right == rightChild(index)
                s1 == IF left < frame.size
                         /\ heap[left].weight < heap[index].weight
                      THEN left ELSE index
                smallest == IF right < frame.size
                               /\ heap[right].weight < heap[s1].weight
                            THEN right ELSE s1
            IN IF smallest # index THEN {index, smallest} ELSE {}
      [] OTHER -> {}

(* The slots of the local array newHeap the statement writes. *)
NewHeapWrites ==
    IF At("r223") /\ frame.i < currentSize THEN {frame.i} ELSE {}

(* currentSize as it was when the running call was entered: enqueue has
   added one from line 214 on, dequeue has taken one off from line 272 on. *)
SizeAtEntry ==
    CASE lastOp = "enqueue" /\ frame.pc \in {"e215", "u203"}
            -> currentSize - 1
      [] lastOp = "dequeue"
            /\ \/ frame.pc \in {"d273", "b247", "d274", "d277"}
               \/ frame.ret = "d277"
            -> currentSize + 1
      [] OTHER -> currentSize

(* C31: every slot the next statement of enqueue, dequeue, peek, bubbleUp,
   bubbleDown or resize reads or writes lies inside the array it accesses;
   every slot read held an element when the call was entered, or is the
   slot enqueue has just written; enqueue writes its element below the end
   of the array; the sift-down of a dequeue that removed the last element
   reads no slot at all. *)
C31_BufferAccessInBounds ==
    /\ HeapReads \cup HeapWrites \subseteq DOMAIN heap
    /\ NewHeapWrites \subseteq DOMAIN frame.newHeap
    /\ \A k \in HeapReads :
          \/ 0 <= k /\ k < SizeAtEntry
          \/ lastOp = "enqueue" /\ At("u203") /\ k = SizeAtEntry
    /\ At("e213") => /\ currentSize < capacity
                     /\ DOMAIN heap = 0 .. capacity - 1
    /\ At("b247") /\ frame.size = 0 => HeapReads = {}

(* C31 witness: enqueue on a full array of 100 is about to write slot 100
   of the array of 200 that resize has put in place. *)
C31_Witness ==
    /\ At("e213") /\ lastOp = "enqueue"
    /\ currentSize = INITIAL_CAPACITY
    /\ HeapWrites = {INITIAL_CAPACITY}
    /\ DOMAIN heap = 0 .. INITIAL_CAPACITY * growFactor - 1

(* C32: after every completed call either the capacity is INITIAL_CAPACITY
   or currentSize >= shrinkThreshold * capacity: above the floor the array
   is never more than four times as large as its contents. *)
C32_LoadInvariant ==
    \/ capacity = INITIAL_CAPACITY
    \/ currentSize * shrinkThreshold[2] >= shrinkThreshold[1] * capacity

(* C32 witness: a dequeue has left exactly a quarter of 200 slots in use,
   and the array was kept. *)
C32_Witness ==
    /\ lastOp = "dequeue" /\ ~threw /\ nNew = 0
    /\ capacity = INITIAL_CAPACITY * growFactor
    /\ currentSize * shrinkThreshold[2] = shrinkThreshold[1] * capacity

(* C33: whenever the queue is empty after a completed call the capacity
   is INITIAL_CAPACITY, also when the queue held more than
   INITIAL_CAPACITY elements before it was drained. *)
C33_EmptyAtInitialCapacity ==
    currentSize = 0 => capacity = INITIAL_CAPACITY

(* C33 witness: the scripted test, whose 120 enqueues grew the array to
   200 slots, has dequeued the last of its elements in the drain loop. *)
C33_Witness ==
    /\ currentSize = 0 /\ lastOp = "dequeue" /\ ~threw
    /\ script.pc = "while" /\ script.n = SecondFill - FirstDrain
    /\ capacity = INITIAL_CAPACITY

(* c is INITIAL_CAPACITY doubled some number of times *)
RECURSIVE IsDoubling(_)
IsDoubling(c) ==
    \/ c = INITIAL_CAPACITY
    \/ /\ c > INITIAL_CAPACITY
       /\ c % growFactor = 0
       /\ IsDoubling(c \div growFactor)

(* C34: the capacity is always INITIAL_CAPACITY * 2^k with k >= 0; the
   truncating conversions of capacity * growFactor and capacity /
   growFactor lose nothing; a call that changes the capacity doubles it
   or halves it, so that a shrink undoes a grow exactly. *)
C34_CapacityLattice ==
    [][/\ IsDoubling(capacity) /\ IsDoubling(capacity')
       /\ TruncDiv(capacity * growFactor, growFactor) = capacity
       /\ capacity > INITIAL_CAPACITY =>
              TruncDiv(capacity, growFactor) * growFactor = capacity
       /\ capacity' > capacity => capacity' = capacity * growFactor
       /\ capacity' < capacity => capacity' * growFactor = capacity]_vars

(* C34 witness: a dequeue has reallocated to INITIAL_CAPACITY with more
   elements left than the floor rule alone allows: it halved an array of
   twice that capacity. *)
C34_Witness ==
    /\ lastOp = "dequeue" /\ ~threw /\ nNew = 1
    /\ capacity = INITIAL_CAPACITY
    /\ currentSize * shrinkThreshold[2]
          >= shrinkThreshold[1] * INITIAL_CAPACITY
    /\ IsDoubling(capacity * growFactor)

(* the slot above slot i in the tree, and the slots from i up to the root *)
Above(i) == (i - 1) \div 2

RECURSIVE PathToRoot(_)
PathToRoot(i) == IF i <= 0 THEN {0} ELSE {i} \cup PathToRoot(Above(i))

(* C35: an enqueue changes only slots on the path from the insertion
   index, the old currentSize, up to the root: every element at another
   index stays where it is; on the path the new element stops at some slot
   j, the elements above j stay, and each element from j down moves one
   slot down the path, so that the old elements keep their order from top
   to bottom. *)
C35_EnqueueFrame ==
    [][currentSize' = currentSize + 1 =>
         LET n == currentSize
             path == PathToRoot(n)
         IN /\ \A i \in Live(n) \ path : heap'[i] = heap[i]
            /\ \E j \in path :
                  /\ live' = BagAdd(live, heap'[j])
                  /\ \A k \in path :
                        /\ k < j => heap'[k] = heap[k]
                        /\ k > j => heap'[k] = heap[Above(k)]]_vars

(* C35 witness: the fifth element was enqueued at index 4 and went up to
   the root; the elements that were at indices 0 and 1 are one slot down
   the path, at 1 and 4. *)
C35_Witness ==
    /\ lastOp = "enqueue" /\ currentSize = 5
    /\ tracking /\ Len(fill) = 5
    /\ heap[0] = fill[5]
    /\ heap[0].weight < heap[1].weight
    /\ heap[1].weight < heap[4].weight

(* C36: two queues that receive the same sequence of calls with the same
   arguments return the same results at every step, the error and the
   choice among elements of equal weight included, and after every step
   have the same currentSize, the same capacity and the same elements
   slot by slot. *)
C36_Determinism ==
    [][script.pc = "second" =>
          /\ threw' = threw
          /\ retPoint' = retPoint
          /\ pqs["pq1"].currentSize' = pqs["pq2"].currentSize'
          /\ pqs["pq1"].capacity' = pqs["pq2"].capacity'
          /\ \A i \in Live(pqs["pq1"].currentSize') :
                Object("pq1").heap'[i] = Object("pq2").heap'[i]]_vars

(* C36 witness: both queues hold two elements of equal weight and another
   element, in arrays of their own, and the same dequeue on each has just
   returned the lighter element. *)
C36_Witness ==
    /\ pqs # NoInstances
    /\ script.pc = "first" /\ lastOp = "pq2.dequeue" /\ ~threw
    /\ pqs["pq2"].currentSize = MaxSameLen - 1
    /\ pqs["pq1"].heapPtr # pqs["pq2"].heapPtr
    /\ Object("pq2").heap[0].weight = Object("pq2").heap[1].weight
    /\ Object("pq2").heap[0].name # Object("pq2").heap[1].name
    /\ retPoint.weight < Object("pq2").heap[0].weight

(* the live slots right below slot j in the tree *)
Below(j, n) == {c \in 1 .. n - 1 : Above(c) = j}

(* C37: at every iteration of bubbleUp, with index j, each live slot
   i >= 1 other than j is no lighter than the slot above it, and the slot
   above j is no heavier than the slots below j: the only pair that may
   be out of order is j and the slot above it. *)
C37_SiftUpInvariant ==
    At("u203") =>
        LET j == frame.index
        IN /\ \A i \in 1 .. currentSize - 1 :
                 i # j => heap[Above(i)].weight <= heap[i].weight
           /\ j > 0 =>
                 \A c \in Below(j, currentSize) :
                    heap[Above(j)].weight <= heap[c].weight

(* C37 witness: the element enqueued at index 3 has been swapped up to
   index 1, above the slot it came from, and is lighter than the root. *)
C37_Witness ==
    /\ At("u203") /\ frame.index = 1 /\ frame.swaps = 1
    /\ currentSize = 4
    /\ Below(frame.index, currentSize) = {3}
    /\ heap[1] = frame.data
    /\ heap[1].weight < heap[0].weight

(* C38: at every iteration of bubbleDown, with index j, each live slot
   i >= 1 that is not right below j is no lighter than the slot above it,
   and the slot above j, if there is one, is no heavier than the slots
   below j: the only pairs that may be out of order are j and the slots
   right below it. *)
C38_SiftDownInvariant ==
    At("b247") =>
        LET j == frame.index
            n == frame.size
        IN /\ n = currentSize
           /\ \A i \in 1 .. n - 1 :
                 Above(i) # j => heap[Above(i)].weight <= heap[i].weight
           /\ j > 0 =>
                 \A c \in Below(j, n) :
                    heap[Above(j)].weight <= heap[c].weight

(* C38 witness: the last element, moved to the root by dequeue, has been
   swapped down to index 1 and is heavier than the element right below it
   at index 3. *)
C38_Witness ==
    /\ At("b247") /\ frame.index = 1 /\ frame.swaps = 1
    /\ frame.size = 4
    /\ Below(frame.index, frame.size) = {3}
    /\ heap[3].weight < heap[1].weight
    /\ heap[0].weight <= heap[3].weight

=============================================================================
